---- MODULE Spec2Model ----
(***************************************************************************)
(* State-machine model of the SAT math bot (src/main.py) and of its        *)
(* analytics logger (src/db.py).                                           *)
(*                                                                         *)
(* Python strings that are parsed, formatted or compared piecewise         *)
(* (positions, /goto tokens, topic names) are sequences of one-character   *)
(* strings, so that str(), int(), isdigit(), strip() and lower() are       *)
(* computed and not assumed.  Python dicts whose iteration order the code  *)
(* relies on are sequences of <<key, value>> pairs in insertion order;     *)
(* dicts used only by key are functions whose DOMAIN is the set of keys.   *)
(***************************************************************************)
EXTENDS Integers, Sequences, FiniteSets, TLC

VARIABLES
    QUESTIONS,        \* main.py:40   the catalog, a sequence of question records
    QUESTION_INDEX,   \* main.py:42   ordered dict  position string -> question
    TOPIC_INDEX,      \* main.py:48   ordered dict  topic -> list of position strings
    TOPIC_NAME_MAP,   \* main.py:49   ordered dict  lowercased topic -> canonical topic
    USER_PROGRESS,    \* main.py:43   user -> [difficulty, index]
    USER_STATS,       \* main.py:46   user -> [total, correct, by_diff, wrong_qnums]
    SEEN_USERS,       \* main.py:44   users that received the intro
    out,              \* what the last handler sent to its user (or raised)
    last,             \* history: user -> position -> the verdict of its last answer
    run,              \* history: user -> the sequential pass the user is on, if any
    _pool,            \* db.py:16     the connection pool, None while there is none
    calls,            \* call -> the stack of frames of an analytics call in flight
    ret,              \* how the last analytics call that ended came back
    tasks             \* task -> the handler it runs and the await it is suspended at

vars == <<QUESTIONS, QUESTION_INDEX, TOPIC_INDEX, TOPIC_NAME_MAP,
          USER_PROGRESS, USER_STATS, SEEN_USERS, out, last, run, _pool, calls, ret,
          tasks>>

catalogVars == <<QUESTIONS, QUESTION_INDEX, TOPIC_INDEX, TOPIC_NAME_MAP>>

\* the state of the bot (main.py never calls db.py)
botVars == <<catalogVars, USER_PROGRESS, USER_STATS, SEEN_USERS, out, last, run, tasks>>

\* the state of the analytics logger
dbVars == <<_pool, calls, ret>>

-----------------------------------------------------------------------------
(* Bounds of the model.                                                    *)

\* number of answer submissions explored per behaviour
MaxAnswers == 3

\* largest cursor value explored
MaxIndex == 2

Users == {"u1", "u2"}

-----------------------------------------------------------------------------
(* Python values and strings.                                              *)

\* Python's None where a letter or a difficulty is expected
None == "None"

\* the empty position: qnum = None (main.py:193) and "no question shown"
NoQnum == <<>>

DigitChars == <<"0", "1", "2", "3", "4", "5", "6", "7", "8", "9">>

DigitSet == {DigitChars[i] : i \in 1..10}

DigitVal(c) == (CHOOSE i \in 1..10 : DigitChars[i] = c) - 1

\* str(n) for an integer n
RECURSIVE Str(_)
Str(n) ==
    IF n < 0 THEN <<"-">> \o Str(-n)
    ELSE IF n < 10 THEN <<DigitChars[n + 1]>>
    ELSE Str(n \div 10) \o <<DigitChars[(n % 10) + 1]>>

\* s.isdigit()
IsDigit(s) == Len(s) > 0 /\ \A i \in 1..Len(s) : s[i] \in DigitSet

\* int(s) for a string of decimal digits (leading zeros allowed)
RECURSIVE ToInt(_)
ToInt(s) ==
    IF Len(s) = 0 THEN 0
    ELSE 10 * ToInt(SubSeq(s, 1, Len(s) - 1)) + DigitVal(s[Len(s)])

LowerChar(c) ==
    CASE c = "A" -> "a"
      [] c = "B" -> "b"
      [] OTHER -> c

\* s.lower()
Lower(s) == [i \in 1..Len(s) |-> LowerChar(s[i])]

RECURSIVE LStrip(_)
LStrip(s) == IF Len(s) > 0 /\ s[1] = " " THEN LStrip(Tail(s)) ELSE s

RECURSIVE RStrip(_)
RStrip(s) ==
    IF Len(s) > 0 /\ s[Len(s)] = " " THEN RStrip(SubSeq(s, 1, Len(s) - 1)) ELSE s

\* s.strip()
Strip(s) == RStrip(LStrip(s))

\* low.startswith(query)
StartsWith(low, query) ==
    Len(query) <= Len(low) /\ SubSeq(low, 1, Len(query)) = query

\* length of the first word of a string that starts with a non-space
WordLen(t) ==
    IF \E i \in 1..Len(t) : t[i] = " "
    THEN (CHOOSE i \in 1..Len(t) : t[i] = " " /\ \A j \in 1..(i - 1) : t[j] # " ") - 1
    ELSE Len(t)

\* s.split(): the whitespace-separated words of s
RECURSIVE Split(_)
Split(s) ==
    LET t == LStrip(s) IN
    IF Len(t) = 0 THEN <<>>
    ELSE <<SubSeq(t, 1, WordLen(t))>> \o Split(SubSeq(t, WordLen(t) + 1, Len(t)))

\* s.split(maxsplit=1): the first word, and the rest without its leading spaces
SplitMax1(s) ==
    LET t == LStrip(s) IN
    IF Len(t) = 0 THEN <<>>
    ELSE LET rest == LStrip(SubSeq(t, WordLen(t) + 1, Len(t))) IN
         IF Len(rest) = 0 THEN <<SubSeq(t, 1, WordLen(t))>>
         ELSE <<SubSeq(t, 1, WordLen(t)), rest>>

-----------------------------------------------------------------------------
(* Ordered dicts: sequences of <<key, value>> pairs in insertion order.    *)

DictKeys(d) == {d[i][1] : i \in 1..Len(d)}

DictGet(d, k) == d[CHOOSE i \in 1..Len(d) : d[i][1] = k][2]

\* d[k] = v: a new key goes last, an existing key keeps its place
DictSet(d, k, v) ==
    IF k \in DictKeys(d)
    THEN [i \in 1..Len(d) |-> IF d[i][1] = k THEN <<k, v>> ELSE d[i]]
    ELSE Append(d, <<k, v>>)

\* q.get(k, dflt) on a question record
Get(q, k, dflt) == IF k \in DOMAIN q THEN q[k] ELSE dflt

\* a or b, for letters
Or(a, b) == IF a \in {None, ""} THEN b ELSE a

-----------------------------------------------------------------------------
(* The catalog: questions.json as read by load_questions.                  *)

\* a catalog that keeps the data model: every correct letter is an option.
\* The second question has no difficulty, the third no topic.
CatalogA ==
    << [id |-> "q1", options |-> <<"A", "B">>, answer |-> "A",
        difficulty |-> "easy", topic |-> <<"A", "b">>],
       [id |-> "q2", options |-> <<"A", "B">>, answer |-> "B",
        topic |-> <<"a">>],
       [id |-> "q3", options |-> <<"A", "B">>, correct |-> "A",
        difficulty |-> "easy"] >>

\* a catalog load_questions accepts as well: the correct letter of the first
\* question is no option, and the two topics are two spellings of one name
CatalogB ==
    << [id |-> "q1", options |-> <<"A", "B">>, correct |-> "C",
        difficulty |-> "easy", topic |-> <<"a", "b">>],
       [id |-> "q2", options |-> <<"A", "B">>, answer |-> "B",
        difficulty |-> "easy", topic |-> <<"A", "B">>] >>

\* a catalog load_questions accepts as well: two questions share an
\* identifier, and the first of them is of another difficulty
CatalogC ==
    << [id |-> "q1", options |-> <<"A", "B">>, answer |-> "A",
        difficulty |-> "hard"],
       [id |-> "q1", options |-> <<"A", "B">>, answer |-> "B",
        difficulty |-> "easy"],
       [id |-> "q2", options |-> <<"A", "B">>, answer |-> "A",
        difficulty |-> "easy"] >>

Catalogs == {CatalogA, CatalogB}

\* QUESTION_INDEX = {str(i + 1): q for i, q in enumerate(ORDERED_QUESTIONS)}
BuildQuestionIndex(qs) == [i \in 1..Len(qs) |-> <<Str(i), qs[i]>>]

\* TOPIC_INDEX.setdefault(topic_str, []).append(qnum), over QUESTION_INDEX.items()
RECURSIVE BuildTopicIndex(_, _)
BuildTopicIndex(index, n) ==
    IF n = 0 THEN <<>>
    ELSE LET acc   == BuildTopicIndex(index, n - 1)
             qnum  == index[n][1]
             topic == Get(index[n][2], "topic", <<>>)
         IN IF topic = <<>> THEN acc
            ELSE IF topic \in DictKeys(acc)
                 THEN DictSet(acc, topic, Append(DictGet(acc, topic), qnum))
                 ELSE DictSet(acc, topic, <<qnum>>)

\* TOPIC_NAME_MAP = {topic.lower(): topic for topic in TOPIC_INDEX.keys()}
RECURSIVE BuildTopicNameMap(_, _)
BuildTopicNameMap(tindex, n) ==
    IF n = 0 THEN <<>>
    ELSE DictSet(BuildTopicNameMap(tindex, n - 1), Lower(tindex[n][1]), tindex[n][1])

\* def load_questions()
load_questions(qs) ==
    LET index  == BuildQuestionIndex(qs)
        tindex == BuildTopicIndex(index, Len(index))
    IN /\ QUESTIONS = qs
       /\ QUESTION_INDEX = index
       /\ TOPIC_INDEX = tindex
       /\ TOPIC_NAME_MAP = BuildTopicNameMap(tindex, Len(tindex))

\* def get_questions_by_difficulty(difficulty)
get_questions_by_difficulty(difficulty) ==
    SelectSeq(QUESTIONS, LAMBDA q : Get(q, "difficulty", None) = difficulty)

\* the letters of the answer buttons, and the difficulty buttons of the intro
Letters == {"A", "B"}

Levels == {"easy", "medium", "hard"}

NavModes == {"sequential", "manual", "review"}

-----------------------------------------------------------------------------
(* Statistics.                                                             *)

\* an empty dict
EmptyMap == [k \in {} |-> k]

EmptyStats == [total |-> 0, correct |-> 0, by_diff |-> EmptyMap, wrong_qnums |-> {}]

\* def get_user_stats(user_id): the stats map with the user's entry created
get_user_stats(stats, user_id) ==
    IF user_id \in DOMAIN stats THEN stats ELSE stats @@ (user_id :> EmptyStats)

\* stats["by_diff"].setdefault(diff, {"total": 0, "correct": 0})
SetDefault(by_diff, diff) ==
    IF diff \in DOMAIN by_diff THEN by_diff
    ELSE by_diff @@ (diff :> [total |-> 0, correct |-> 0])

\* faulty variant of UpdateWrong: a correct answer does not clear the position
UpdateWrongKeeping(wrong, qnum, is_correct) ==
    IF is_correct THEN wrong ELSE wrong \cup {qnum}

\* the wrong-set after an answer
UpdateWrong(wrong, qnum, is_correct) ==
    IF is_correct THEN wrong \ {qnum} ELSE wrong \cup {qnum}

\* faulty variant of UpdateByDiff: the bucket does not count correct answers
UpdateByDiffTotalOnly(by_diff, diff, is_correct) ==
    LET d == SetDefault(by_diff, diff) IN
    [d EXCEPT ![diff] = [total |-> @.total + 1, correct |-> @.correct]]

\* the per-difficulty counters after an answer
UpdateByDiff(by_diff, diff, is_correct) ==
    LET d == SetDefault(by_diff, diff) IN
    [d EXCEPT ![diff] = [total   |-> @.total + 1,
                         correct |-> @.correct + (IF is_correct THEN 1 ELSE 0)]]

\* faulty variant of update_stats: a question without a difficulty tag is
\* counted in a bucket keyed None
update_stats_untagged(stats, user_id, question, qnum, is_correct) ==
    LET s == get_user_stats(stats, user_id) IN
    [s EXCEPT ![user_id] =
        [total       |-> @.total + 1,
         correct     |-> @.correct + (IF is_correct THEN 1 ELSE 0),
         by_diff     |-> UpdateByDiff(@.by_diff, Get(question, "difficulty", None),
                                      is_correct),
         wrong_qnums |-> UpdateWrong(@.wrong_qnums, qnum, is_correct)]]

\* faulty variant of update_stats: every answer is counted as correct in the
\* user's counter
update_stats_lenient(stats, user_id, question, qnum, is_correct) ==
    LET s == get_user_stats(stats, user_id) IN
    [s EXCEPT ![user_id] =
        [total       |-> @.total + 1,
         correct     |-> @.correct + 1,
         by_diff     |-> UpdateByDiff(@.by_diff, Get(question, "difficulty", "unknown"),
                                      is_correct),
         wrong_qnums |-> UpdateWrong(@.wrong_qnums, qnum, is_correct)]]

\* def update_stats(user_id, question, qnum, is_correct): the new stats map
update_stats(stats, user_id, question, qnum, is_correct) ==
    LET s == get_user_stats(stats, user_id) IN
    [s EXCEPT ![user_id] =
        [total       |-> @.total + 1,
         correct     |-> @.correct + (IF is_correct THEN 1 ELSE 0),
         by_diff     |-> UpdateByDiff(@.by_diff, Get(question, "difficulty", "unknown"),
                                      is_correct),
         wrong_qnums |-> UpdateWrong(@.wrong_qnums, qnum, is_correct)]]

RECURSIVE SumOver(_, _)
SumOver(f, field) ==
    IF DOMAIN f = {} THEN 0
    ELSE LET k == CHOOSE k \in DOMAIN f : TRUE IN
         f[k][field] + SumOver([j \in DOMAIN f \ {k} |-> f[j]], field)

\* answers recorded so far, over all users
Answered == SumOver(USER_STATS, "total")

-----------------------------------------------------------------------------
(* What a handler sends.                                                   *)

\* no question presented
NoShow == [qnum |-> NoQnum, qid |-> "", mode |-> ""]

\* def send_question_universal(bot, user_id, q, qnum, nav_mode): the question
\* message; its buttons carry answer|id|letter|nav_mode|qnum and nav_*|qnum
send_question_universal(q, qnum, nav_mode) ==
    [qnum |-> qnum, qid |-> q.id, mode |-> nav_mode]

Sent(op, user, reply, shown, then) ==
    [op |-> op, user |-> user, reply |-> reply, shown |-> shown,
     then |-> then, raised |-> "none"]

Raised(op, user, reply, exc) ==
    [op |-> op, user |-> user, reply |-> reply, shown |-> NoShow,
     then |-> "none", raised |-> exc]

\* faulty variant of FindQnum: the scan has no break and keeps the last match
FindQnumLast(q) ==
    LET hits == {i \in 1..Len(QUESTION_INDEX) : QUESTION_INDEX[i][2].id = q.id} IN
    IF hits = {} THEN NoQnum
    ELSE QUESTION_INDEX[CHOOSE i \in hits : \A j \in hits : i >= j][1]

\* for num, obj in QUESTION_INDEX.items(): if obj["id"] == q["id"]: qnum = num; break
FindQnum(q) ==
    LET hits == {i \in 1..Len(QUESTION_INDEX) : QUESTION_INDEX[i][2].id = q.id} IN
    IF hits = {} THEN NoQnum
    ELSE QUESTION_INDEX[CHOOSE i \in hits : \A j \in hits : i <= j][1]

\* def send_sequential(bot, user_id, difficulty), from a session map: the
\* session map it leaves, the notice it sends and the question it presents
send_sequential(progress, user_id, difficulty) ==
    LET questions == get_questions_by_difficulty(difficulty)
        p1 == IF user_id \notin DOMAIN progress
                 \/ progress[user_id].difficulty # difficulty
              THEN [k \in DOMAIN progress \cup {user_id} |->
                       IF k = user_id THEN [difficulty |-> difficulty, index |-> 0]
                       ELSE progress[k]]
              ELSE progress
        idx == p1[user_id].index
    IN IF Len(questions) = 0
       THEN [progress |-> progress, notice |-> "no_questions", shown |-> NoShow]
       ELSE IF idx >= Len(questions)
       THEN [progress |-> p1, notice |-> "level_complete", shown |-> NoShow]
       ELSE [progress |-> p1, notice |-> "none",
             shown |-> send_question_universal(questions[idx + 1],
                                               FindQnum(questions[idx + 1]),
                                               "sequential")]

-----------------------------------------------------------------------------
(* History kept for the properties: it records what the users did and is   *)
(* never read by a handler.                                                *)

NoRun == [on |-> FALSE, difficulty |-> "", shown |-> NoQnum, asked |-> <<>>, given |-> <<>>]

\* the user leaves the sequential pass (any action other than answering the
\* question the pass presented)
RunOff(user) == run' = [run EXCEPT ![user] = NoRun]

\* the correct letter of the question at a position, as the catalog gives it
CorrectLetter(qnum) ==
    LET q == QUESTIONS[ToInt(qnum)] IN
    IF "answer" \in DOMAIN q THEN q.answer
    ELSE IF "correct" \in DOMAIN q THEN q.correct ELSE None

\* the user submitted choice for the question at the existing position qnum
Record(user, qnum, choice) ==
    LET right == (choice = CorrectLetter(qnum))
        old   == last[user]
    IN last' = [last EXCEPT ![user] =
                   [p \in DOMAIN old \cup {qnum} |->
                       IF p # qnum THEN old[p] ELSE [right |-> right]]]

-----------------------------------------------------------------------------
(* The handlers.  A handler runs from the update that triggers it to its   *)
(* return; user_id is the sender of the update.                            *)

\* @router.message(CommandStart())
start_handler(user_id) ==
    /\ SEEN_USERS' = SEEN_USERS \cup {user_id}
    /\ out' = Sent("start", user_id, "intro", NoShow, "none")
    /\ RunOff(user_id)
    /\ UNCHANGED <<catalogVars, dbVars, tasks, USER_PROGRESS, USER_STATS, last>>

\* faulty variant of level_handler: without the assignment of main.py:246, a
\* pick of the current difficulty resumes at the cursor
level_handler_resuming(user_id, difficulty) ==
    LET r == send_sequential(USER_PROGRESS, user_id, difficulty)
    IN /\ USER_PROGRESS' = r.progress
       /\ out' = Sent("level", user_id, "selected", r.shown, r.notice)
       /\ run' = [run EXCEPT ![user_id] = NoRun]
       /\ UNCHANGED <<catalogVars, dbVars, tasks, USER_STATS, SEEN_USERS, last>>

\* @router.callback_query(F.data.startswith("level|"))
level_handler(user_id, difficulty) ==
    LET p0 == [k \in DOMAIN USER_PROGRESS \cup {user_id} |->
                  IF k = user_id THEN [difficulty |-> difficulty, index |-> 0]
                  ELSE USER_PROGRESS[k]]
        r  == send_sequential(p0, user_id, difficulty)
    IN /\ USER_PROGRESS' = r.progress
       /\ out' = Sent("level", user_id, "selected", r.shown, r.notice)
       /\ run' = [run EXCEPT ![user_id] =
                     IF /\ user_id \notin DOMAIN USER_STATS
                        /\ user_id \notin DOMAIN USER_PROGRESS
                        /\ Len(get_questions_by_difficulty(difficulty)) > 0
                     THEN [on |-> TRUE, difficulty |-> difficulty,
                           shown |-> r.shown.qnum, asked |-> <<>>, given |-> <<>>]
                     ELSE NoRun]
       /\ UNCHANGED <<catalogVars, dbVars, tasks, USER_STATS, SEEN_USERS, last>>

\* random.randint(1, len(ORDERED_QUESTIONS)) and the question it selects
RandomShown(n) ==
    send_question_universal(DictGet(QUESTION_INDEX, Str(n)), Str(n), "manual")

\* @router.callback_query(F.data == "intro_random")
intro_random(user_id) ==
    /\ \E n \in 1..Len(QUESTIONS) :
          out' = Sent("intro_random", user_id, "none", RandomShown(n), "none")
    /\ RunOff(user_id)
    /\ UNCHANGED <<catalogVars, dbVars, tasks, USER_PROGRESS, USER_STATS, SEEN_USERS, last>>

\* @router.callback_query(F.data == "intro_help")
intro_help(user_id) ==
    /\ out' = Sent("intro_help", user_id, "help", NoShow, "none")
    /\ RunOff(user_id)
    /\ UNCHANGED <<catalogVars, dbVars, tasks, USER_PROGRESS, USER_STATS, SEEN_USERS, last>>

\* the text of a message: a command word followed by what the user typed after it
Text(command, rest) == <<command>> \o rest

\* faulty variant of GotoResult: a number past the catalog presents the last question
GotoResultClamped(user_id, rest) ==
    LET parts == Split(Text("/goto", rest))
        end   == Str(Len(QUESTIONS))
    IN IF Len(parts) # 2 \/ ~IsDigit(parts[2])
       THEN Sent("goto", user_id, "format", NoShow, "none")
       ELSE IF parts[2] \notin DictKeys(QUESTION_INDEX)
       THEN Sent("goto", user_id, "none",
                 send_question_universal(DictGet(QUESTION_INDEX, end), end, "manual"),
                 "none")
       ELSE Sent("goto", user_id, "none",
                 send_question_universal(DictGet(QUESTION_INDEX, parts[2]), parts[2], "manual"),
                 "none")

\* what goto_handler answers to the text "/goto" + rest
GotoResult(user_id, rest) ==
    LET parts == Split(Text("/goto", rest)) IN
    IF Len(parts) # 2 \/ ~IsDigit(parts[2])
    THEN Sent("goto", user_id, "format", NoShow, "none")
    ELSE IF parts[2] \notin DictKeys(QUESTION_INDEX)
    THEN Sent("goto", user_id, "not_found", NoShow, "none")
    ELSE Sent("goto", user_id, "none",
              send_question_universal(DictGet(QUESTION_INDEX, parts[2]), parts[2], "manual"),
              "none")

\* @router.message(F.text.startswith("/goto"))
goto_handler(user_id, rest) ==
    /\ out' = GotoResult(user_id, rest)
    /\ RunOff(user_id)
    /\ UNCHANGED <<catalogVars, dbVars, tasks, USER_PROGRESS, USER_STATS, SEEN_USERS, last>>

\* @router.message(F.text == "/random")
random_handler(user_id) ==
    /\ \E n \in 1..Len(QUESTIONS) :
          out' = Sent("random", user_id, "none", RandomShown(n), "none")
    /\ RunOff(user_id)
    /\ UNCHANGED <<catalogVars, dbVars, tasks, USER_PROGRESS, USER_STATS, SEEN_USERS, last>>

\* faulty variant of stats_handler: the entry is fetched with get_user_stats,
\* which creates it
stats_handler_creating(user_id) ==
    /\ USER_STATS' = get_user_stats(USER_STATS, user_id)
    /\ out' = IF USER_STATS'[user_id].total = 0
              THEN Sent("stats", user_id, "no_stats", NoShow, "none")
              ELSE Sent("stats", user_id, "stats", NoShow, "none")
    /\ RunOff(user_id)
    /\ UNCHANGED <<catalogVars, dbVars, tasks, USER_PROGRESS, SEEN_USERS, last>>

\* @router.message(F.text == "/stats")
stats_handler(user_id) ==
    /\ out' = IF user_id \notin DOMAIN USER_STATS \/ USER_STATS[user_id].total = 0
              THEN Sent("stats", user_id, "no_stats", NoShow, "none")
              ELSE Sent("stats", user_id, "stats", NoShow, "none")
    /\ RunOff(user_id)
    /\ UNCHANGED <<catalogVars, dbVars, tasks, USER_PROGRESS, USER_STATS, SEEN_USERS, last>>

\* faulty variant of review_wrong_handler: the question is drawn from the
\* whole catalog
review_wrong_handler_any(user_id) ==
    /\ IF user_id \notin DOMAIN USER_STATS \/ USER_STATS[user_id].wrong_qnums = {}
       THEN out' = Sent("review_wrong", user_id, "no_wrong", NoShow, "none")
       ELSE \E qnum \in DictKeys(QUESTION_INDEX) :
               out' = Sent("review_wrong", user_id, "none",
                           send_question_universal(DictGet(QUESTION_INDEX, qnum),
                                                   qnum, "review"),
                           "none")
    /\ RunOff(user_id)
    /\ UNCHANGED <<catalogVars, dbVars, tasks, USER_PROGRESS, USER_STATS, SEEN_USERS, last>>

\* faulty variant of review_wrong_handler: the question is drawn from the
\* positions the user ever answered, corrected ones included
review_wrong_handler_answered(user_id) ==
    /\ IF user_id \notin DOMAIN USER_STATS \/ DOMAIN last[user_id] = {}
       THEN out' = Sent("review_wrong", user_id, "no_wrong", NoShow, "none")
       ELSE \E qnum \in DOMAIN last[user_id] :
               out' = Sent("review_wrong", user_id, "none",
                           send_question_universal(DictGet(QUESTION_INDEX, qnum),
                                                   qnum, "review"),
                           "none")
    /\ RunOff(user_id)
    /\ UNCHANGED <<catalogVars, dbVars, tasks, USER_PROGRESS, USER_STATS, SEEN_USERS, last>>

\* @router.message(F.text == "/review_wrong")
review_wrong_handler(user_id) ==
    /\ IF user_id \notin DOMAIN USER_STATS \/ USER_STATS[user_id].wrong_qnums = {}
       THEN out' = Sent("review_wrong", user_id, "no_wrong", NoShow, "none")
       ELSE \E qnum \in USER_STATS[user_id].wrong_qnums :
               out' = Sent("review_wrong", user_id, "none",
                           send_question_universal(DictGet(QUESTION_INDEX, qnum),
                                                   qnum, "review"),
                           "none")
    /\ RunOff(user_id)
    /\ UNCHANGED <<catalogVars, dbVars, tasks, USER_PROGRESS, USER_STATS, SEEN_USERS, last>>

\* @router.message(F.text == "/topics")
topics_handler(user_id) ==
    /\ out' = IF Len(TOPIC_INDEX) = 0
              THEN Sent("topics", user_id, "no_topics", NoShow, "none")
              ELSE Sent("topics", user_id, "topics", NoShow, "none")
    /\ RunOff(user_id)
    /\ UNCHANGED <<catalogVars, dbVars, tasks, USER_PROGRESS, USER_STATS, SEEN_USERS, last>>

\* faulty variant of ResolveTopic: the first topic the query is a prefix of,
\* without the exact lookup
ResolveTopicPrefixOnly(query) ==
    LET hits == {i \in 1..Len(TOPIC_NAME_MAP) : StartsWith(TOPIC_NAME_MAP[i][1], query)}
    IN IF hits = {} THEN <<>>
       ELSE TOPIC_NAME_MAP[CHOOSE i \in hits : \A j \in hits : i <= j][2]

\* the canonical topic a query resolves to, <<>> when it resolves to none
ResolveTopic(query) ==
    IF query \in DictKeys(TOPIC_NAME_MAP)
    THEN DictGet(TOPIC_NAME_MAP, query)
    ELSE LET hits == {i \in 1..Len(TOPIC_NAME_MAP) :
                         StartsWith(TOPIC_NAME_MAP[i][1], query)}
         IN IF hits = {} THEN <<>>
            ELSE TOPIC_NAME_MAP[CHOOSE i \in hits : \A j \in hits : i <= j][2]

\* query = parts[1].strip().lower()
TopicQuery(part) == Lower(Strip(part))

\* what topic_handler may answer to the text "/topic" + rest
TopicResults(user_id, rest) ==
    LET parts == SplitMax1(Text("/topic", rest)) IN
    IF Len(parts) # 2
    THEN {Sent("topic", user_id, "format", NoShow, "none")}
    ELSE LET topic_canonical == ResolveTopic(TopicQuery(parts[2])) IN
         IF topic_canonical = <<>>
         THEN {Sent("topic", user_id, "not_found", NoShow, "none")}
         ELSE LET qnums == DictGet(TOPIC_INDEX, topic_canonical) IN
              {Sent("topic", user_id, "none",
                    send_question_universal(DictGet(QUESTION_INDEX, qnums[i]),
                                            qnums[i], "manual"),
                    "none") : i \in 1..Len(qnums)}

\* @router.message(F.text.startswith("/topic"))
topic_handler(user_id, rest) ==
    /\ out' \in TopicResults(user_id, rest)
    /\ RunOff(user_id)
    /\ UNCHANGED <<catalogVars, dbVars, tasks, USER_PROGRESS, USER_STATS, SEEN_USERS, last>>

\* faulty variant of NavResult: prev moves forward as next does
NavResultForward(op, user_id, qnum, step, boundary) ==
    LET num == Str(ToInt(qnum) + 1) IN
    IF num \notin DictKeys(QUESTION_INDEX)
    THEN Sent(op, user_id, boundary, NoShow, "none")
    ELSE Sent(op, user_id, "none",
              send_question_universal(DictGet(QUESTION_INDEX, num), num, "manual"),
              "none")

\* faulty variant of NavResult: the walk wraps around at both ends of the catalog
NavResultWrapping(op, user_id, qnum, step, boundary) ==
    LET n   == Len(QUESTIONS)
        num == Str(((ToInt(qnum) + step - 1) % n) + 1)
    IN Sent(op, user_id, "none",
            send_question_universal(DictGet(QUESTION_INDEX, num), num, "manual"),
            "none")

\* what a prev/next button answers: the question at position int(qnum) + step
NavResult(op, user_id, qnum, step, boundary) ==
    LET num == Str(ToInt(qnum) + step) IN
    IF num \notin DictKeys(QUESTION_INDEX)
    THEN Sent(op, user_id, boundary, NoShow, "none")
    ELSE Sent(op, user_id, "none",
              send_question_universal(DictGet(QUESTION_INDEX, num), num, "manual"),
              "none")

\* @router.callback_query(F.data.startswith("nav_prev|"))
nav_prev(user_id, qnum) ==
    /\ out' = NavResult("nav_prev", user_id, qnum, -1, "first")
    /\ RunOff(user_id)
    /\ UNCHANGED <<catalogVars, dbVars, tasks, USER_PROGRESS, USER_STATS, SEEN_USERS, last>>

\* faulty variant of nav_next: the button also advances the cursor of the session
nav_next_advancing(user_id, qnum) ==
    /\ out' = NavResult("nav_next", user_id, qnum, 1, "last")
    /\ USER_PROGRESS' = IF user_id \in DOMAIN USER_PROGRESS
                        THEN [USER_PROGRESS EXCEPT ![user_id].index = @ + 1]
                        ELSE USER_PROGRESS
    /\ RunOff(user_id)
    /\ UNCHANGED <<catalogVars, dbVars, tasks, USER_STATS, SEEN_USERS, last>>

\* @router.callback_query(F.data.startswith("nav_next|"))
nav_next(user_id, qnum) ==
    /\ out' = NavResult("nav_next", user_id, qnum, 1, "last")
    /\ RunOff(user_id)
    /\ UNCHANGED <<catalogVars, dbVars, tasks, USER_PROGRESS, USER_STATS, SEEN_USERS, last>>

\* the options mapping has the key
HasOption(q, letter) == \E i \in 1..Len(q.options) : q.options[i] = letter

\* faulty variant of Advance: one shared cursor, advanced for every user
AdvanceAll(progress, user_id) ==
    [k \in DOMAIN progress |-> [progress[k] EXCEPT !.index = @ + 1]]

\* progress["index"] += 1
Advance(progress, user_id) == [progress EXCEPT ![user_id].index = @ + 1]

\* the sequential pass of the user after an answer, given what was sent
RunStep(user_id, choice, nav_mode, qnum, sent) ==
    run' = [run EXCEPT ![user_id] =
               IF @.on /\ nav_mode = "sequential" /\ qnum = @.shown /\ qnum # NoQnum
               THEN [@ EXCEPT !.asked = Append(@, qnum),
                              !.given = Append(@, choice = CorrectLetter(qnum)),
                              !.shown = sent.shown.qnum]
               ELSE NoRun]

\* @router.callback_query(F.data.startswith("answer|")), for the callback data
\* answer|<id>|choice|nav_mode|qnum
answer_handler(user_id, choice, nav_mode, qnum) ==
    IF qnum \notin DictKeys(QUESTION_INDEX)
    THEN \* q = QUESTION_INDEX[qnum] raises
         /\ out' = Raised("answer", user_id, "none", "KeyError")
         /\ RunOff(user_id)
         /\ UNCHANGED <<catalogVars, dbVars, tasks, USER_PROGRESS, USER_STATS, SEEN_USERS, last>>
    ELSE LET q          == DictGet(QUESTION_INDEX, qnum)
             correct    == Or(Get(q, "answer", None), Get(q, "correct", None))
             is_correct == (choice = correct)
             feedback   == IF is_correct THEN "correct" ELSE "incorrect"
         IN /\ Answered < MaxAnswers
            /\ USER_STATS' = update_stats(USER_STATS, user_id, q, qnum, is_correct)
            /\ Record(user_id, qnum, choice)
            /\ IF ~is_correct /\ ~HasOption(q, correct)
               THEN \* q['options'][correct] raises while the feedback is formatted
                    /\ out' = Raised("answer", user_id, "none", "KeyError")
                    /\ UNCHANGED USER_PROGRESS
               ELSE IF nav_mode = "sequential" /\ user_id \in DOMAIN USER_PROGRESS
               THEN LET p1 == Advance(USER_PROGRESS, user_id)
                        r  == send_sequential(p1, user_id, p1[user_id].difficulty)
                    IN /\ USER_PROGRESS[user_id].index < MaxIndex
                       /\ USER_PROGRESS' = r.progress
                       /\ out' = Sent("answer", user_id, feedback, r.shown, r.notice)
               ELSE /\ out' = Sent("answer", user_id, feedback, NoShow, "none")
                    /\ UNCHANGED USER_PROGRESS
            /\ RunStep(user_id, choice, nav_mode, qnum, out')
            /\ UNCHANGED <<catalogVars, dbVars, tasks, SEEN_USERS>>

\* text.startswith("/")
IsCommand(text) == Len(text) > 0 /\ text[1] = "/"

\* faulty variant of fallback_handler: the intro is sent but the user is not
\* remembered
fallback_handler_forgetting(user_id, text) ==
    /\ IF IsCommand(text)
       THEN out' = Sent("fallback", user_id, "none", NoShow, "none")
       ELSE IF user_id \notin SEEN_USERS
       THEN out' = Sent("fallback", user_id, "intro", NoShow, "none")
       ELSE out' = Sent("fallback", user_id, "not_understood", NoShow, "none")
    /\ RunOff(user_id)
    /\ UNCHANGED <<catalogVars, dbVars, tasks, USER_PROGRESS, USER_STATS, SEEN_USERS, last>>

\* @router.message(): the messages no other handler takes
fallback_handler(user_id, text) ==
    /\ IF IsCommand(text)
       THEN /\ out' = Sent("fallback", user_id, "none", NoShow, "none")
            /\ UNCHANGED SEEN_USERS
       ELSE IF user_id \notin SEEN_USERS
       THEN /\ SEEN_USERS' = SEEN_USERS \cup {user_id}
            /\ out' = Sent("fallback", user_id, "intro", NoShow, "none")
       ELSE /\ out' = Sent("fallback", user_id, "not_understood", NoShow, "none")
            /\ UNCHANGED SEEN_USERS
    /\ RunOff(user_id)
    /\ UNCHANGED <<catalogVars, dbVars, tasks, USER_PROGRESS, USER_STATS, last>>

-----------------------------------------------------------------------------
(* The analytics logger (src/db.py).  A call is a stack of frames: the      *)
(* frame of the function called and, while log_event or log_attempt awaits  *)
(* ensure_user, the frame of that ensure_user on top of it.  Every function *)
(* runs its statement inside "async with get_conn() as conn".               *)

\* concurrent analytics calls explored
MaxCalls == 2

\* asyncpg.create_pool(..., max_size=5, ...)
PoolMaxSize == 5

\* the functions whose body awaits ensure_user before its own statement
Loggers == {"log_event", "log_attempt"}

Writes == {"ensure_user"} \cup Loggers

Reads == {"get_dau_today", "get_attempts_today", "get_attempts_total", "get_accuracy",
          "get_attempts_per_day", "get_top_users_last_7_days", "get_retention_d1"}

\* what a function returns when it has no connection or its statement fails
Zero(fn) ==
    IF fn \in Writes THEN "False"
    ELSE IF fn \in {"get_accuracy", "get_retention_d1"} THEN "0.0"
    ELSE IF fn \in {"get_attempts_per_day", "get_top_users_last_7_days"} THEN "[]"
    ELSE "0"

\* what a function returns when its statement succeeds
Value(fn) == IF fn \in Writes THEN "True" ELSE "result"

\* a frame at the call of fn
Frame(fn) == [fn |-> fn, pc |-> "enter", value |-> None, fault |-> "none"]

\* the frames that hold a connection of the pool
Holding == {"body", "called", "execute", "release"}

RECURSIVE HeldBy(_)
HeldBy(stack) ==
    IF stack = <<>> THEN 0
    ELSE (IF Head(stack).pc \in Holding THEN 1 ELSE 0) + HeldBy(Tail(stack))

RECURSIVE HeldUpTo(_)
HeldUpTo(c) == IF c = 0 THEN 0 ELSE HeldBy(calls[c]) + HeldUpTo(c - 1)

\* the connections of the pool that are acquired
Held == HeldUpTo(Len(calls))

NoRet == [fn |-> "", value |-> None, fault |-> "none", raised |-> "none"]

Top(c) == calls[c][Len(calls[c])]

SetTop(c, frame) == calls' = [calls EXCEPT ![c][Len(calls[c])] = frame]

\* the top frame of call c ends: it returns value, or raises.  The call ends
\* with it, or the log function that awaited ensure_user goes on: to its own
\* statement when ensure_user returned (the value is dropped), to "return
\* False" under "except Exception" when ensure_user raised.
Finish(c, value, fault, raised) ==
    IF Len(calls[c]) = 1
    THEN /\ calls' = [calls EXCEPT ![c] = <<>>]
         /\ ret' = [fn |-> Top(c).fn, value |-> value, fault |-> fault, raised |-> raised]
    ELSE /\ calls' = [calls EXCEPT ![c] =
                         <<IF raised = "none"
                           THEN [@[1] EXCEPT !.pc = "execute"]
                           ELSE [@[1] EXCEPT !.pc = "release", !.value = "False",
                                             !.fault = "ensure_user"]>>]
         /\ UNCHANGED ret

\* async def init_db(): the pool is created, or creating it fails
init_db(created) ==
    /\ _pool = None
    /\ _pool' = IF created THEN "pool" ELSE None
    /\ UNCHANGED <<botVars, calls, ret>>

\* async def close_db(), at shutdown: no call is in flight
close_db ==
    /\ _pool # None
    /\ \A c \in DOMAIN calls : calls[c] = <<>>
    /\ _pool' = None
    /\ UNCHANGED <<botVars, calls, ret>>

\* a caller awaits fn(...)
call(c, fn) ==
    /\ calls[c] = <<>>
    /\ calls' = [calls EXCEPT ![c] = <<Frame(fn)>>]
    /\ UNCHANGED <<botVars, _pool, ret>>

\* get_conn up to its first await: without a pool it yields None, the body
\* returns the zero value and the generator returns
get_conn_enter(c) ==
    /\ calls[c] # <<>> /\ Top(c).pc = "enter"
    /\ IF _pool = None
       THEN Finish(c, Zero(Top(c).fn), "no_pool", "none")
       ELSE SetTop(c, [Top(c) EXCEPT !.pc = "acquire"]) /\ UNCHANGED ret
    /\ UNCHANGED <<botVars, _pool>>

\* async with _pool.acquire() as conn: a connection is handed out when one is
\* free, and conn is yielded; or acquire raises, get_conn yields None under
\* "except Exception", the body returns the zero value and the generator ends
get_conn_acquire(c, ok) ==
    /\ calls[c] # <<>> /\ Top(c).pc = "acquire"
    /\ IF ok
       THEN /\ Held < PoolMaxSize
            /\ SetTop(c, [Top(c) EXCEPT !.pc = "body"])
            /\ UNCHANGED ret
       ELSE Finish(c, Zero(Top(c).fn), "acquire", "none")
    /\ UNCHANGED <<botVars, _pool>>

\* await ensure_user(user_id) in log_event and log_attempt
await_ensure_user(c) ==
    /\ calls[c] # <<>> /\ Top(c).pc = "body" /\ Top(c).fn \in Loggers
    /\ calls' = [calls EXCEPT ![c] =
                    <<[Top(c) EXCEPT !.pc = "called"], Frame("ensure_user")>>]
    /\ UNCHANGED <<botVars, _pool, ret>>

\* the function's own statement, in its try block: it returns the value, or
\* the statement raises and the except clause returns the zero value
statement(c, ok) ==
    /\ calls[c] # <<>>
    /\ \/ Top(c).pc = "body" /\ Top(c).fn \notin Loggers
       \/ Top(c).pc = "execute"
    /\ SetTop(c, [Top(c) EXCEPT
                     !.pc = "release",
                     !.value = IF ok THEN Value(Top(c).fn) ELSE Zero(Top(c).fn),
                     !.fault = IF ok THEN "none" ELSE "statement"])
    /\ UNCHANGED <<botVars, _pool, ret>>

\* the body returned with the connection: get_conn is resumed and leaves
\* "async with _pool.acquire()", which releases the connection.  When the
\* release raises, "except Exception" yields a second time and the context
\* manager raises RuntimeError("generator didn't stop") out of the function.
get_conn_exit(c, ok) ==
    /\ calls[c] # <<>> /\ Top(c).pc = "release"
    /\ IF ok
       THEN Finish(c, Top(c).value, Top(c).fault, "none")
       ELSE Finish(c, None, Top(c).fault, "RuntimeError")
    /\ UNCHANGED <<botVars, _pool>>

-----------------------------------------------------------------------------
(* The updates the users send.                                             *)

\* what a user types after /goto: nothing, a position, a missing position, a
\* word, a position with a leading zero, two tokens
GotoRests ==
    { <<>>, <<" ", "2">>, <<" ", "9">>, <<" ", "a">>, <<" ", "0", "2">>,
      <<" ", "1", " ", "2">> }

\* what a user types after /topic
TopicRests ==
    { <<>>, <<" ", "a">>, <<" ", "A", "B">>, <<" ", "b">>, <<" ", " ", "a", " ">> }

\* the positions on the buttons a user may press: those of the catalog, and a
\* stale one left in the chat by a run with a longer catalog
ButtonQnums == DictKeys(QUESTION_INDEX) \cup {Str(Len(QUESTIONS) + 1)}

FallbackTexts == { <<>>, <<"h", "i">>, <<"/", "x">> }

\* the bot after main() loaded the catalog qs
InitBot(qs) ==
    /\ load_questions(qs)
    /\ USER_PROGRESS = EmptyMap
    /\ USER_STATS = EmptyMap
    /\ SEEN_USERS = {}
    /\ out = Sent("main", "", "none", NoShow, "none")
    /\ last = [u \in Users |-> EmptyMap]
    /\ run = [u \in Users |-> NoRun]

\* the bot starts; the analytics logger is not used by it
Init ==
    /\ \E qs \in Catalogs : InitBot(qs)
    /\ _pool = None
    /\ calls = <<>>
    /\ ret = NoRet
    /\ tasks = <<>>

\* every update a user can send
Handlers(user_id) ==
    \/ start_handler(user_id)
    \/ \E difficulty \in Levels : level_handler(user_id, difficulty)
    \/ intro_random(user_id)
    \/ intro_help(user_id)
    \/ \E rest \in GotoRests : goto_handler(user_id, rest)
    \/ random_handler(user_id)
    \/ stats_handler(user_id)
    \/ review_wrong_handler(user_id)
    \/ topics_handler(user_id)
    \/ \E rest \in TopicRests : topic_handler(user_id, rest)
    \/ \E qnum \in ButtonQnums : nav_prev(user_id, qnum)
    \/ \E qnum \in ButtonQnums : nav_next(user_id, qnum)
    \/ \E choice \in Letters, nav_mode \in NavModes, qnum \in ButtonQnums :
          answer_handler(user_id, choice, nav_mode, qnum)
    \/ \E text \in FallbackTexts : fallback_handler(user_id, text)

\* One user sends every kind of update.
Next == Handlers("u1")

Spec == Init /\ [][Next]_vars

\* The analytics logger on its own: callers await its functions while the
\* pool is created, closed, and connections are acquired and released.
InitDb ==
    /\ InitBot(CatalogA)
    /\ _pool = None
    /\ calls = [c \in 1..MaxCalls |-> <<>>]
    /\ ret = NoRet
    /\ tasks = <<>>

NextDb ==
    \/ \E created \in BOOLEAN : init_db(created)
    \/ close_db
    \/ \E c \in DOMAIN calls, fn \in Writes \cup Reads : call(c, fn)
    \/ \E c \in DOMAIN calls : get_conn_enter(c)
    \/ \E c \in DOMAIN calls, ok \in BOOLEAN : get_conn_acquire(c, ok)
    \/ \E c \in DOMAIN calls : await_ensure_user(c)
    \/ \E c \in DOMAIN calls, ok \in BOOLEAN : statement(c, ok)
    \/ \E c \in DOMAIN calls, ok \in BOOLEAN : get_conn_exit(c, ok)

SpecDb == InitDb /\ [][NextDb]_vars

\* As many concurrent log calls as the pool has connections, on a database
\* that works: the pool is created, every acquire that finds a free connection
\* gets it, every statement and every release succeeds.
InitPool ==
    /\ InitBot(CatalogA)
    /\ _pool = None
    /\ calls = [c \in 1..PoolMaxSize |-> <<>>]
    /\ ret = NoRet
    /\ tasks = <<>>

\* the first caller logs an attempt, the others log events
LoggerOf(c) == IF c = 1 THEN "log_attempt" ELSE "log_event"

NextPool ==
    \/ init_db(TRUE)
    \/ \E c \in DOMAIN calls : call(c, LoggerOf(c))
    \/ \E c \in DOMAIN calls : get_conn_enter(c)
    \/ \E c \in DOMAIN calls : get_conn_acquire(c, TRUE)
    \/ \E c \in DOMAIN calls : await_ensure_user(c)
    \/ \E c \in DOMAIN calls : statement(c, TRUE)
    \/ \E c \in DOMAIN calls : get_conn_exit(c, TRUE)

SpecPool == InitPool /\ [][NextPool]_vars

\* Two users send updates in any order: each of them every kind of update,
\* with one input per kind (both letters and two modes for an answer).
InitTwo ==
    /\ InitBot(CatalogA)
    /\ _pool = None
    /\ calls = <<>>
    /\ ret = NoRet
    /\ tasks = <<>>

HandlersTwo(user_id) ==
    \/ start_handler(user_id)
    \/ level_handler(user_id, "easy")
    \/ intro_random(user_id)
    \/ intro_help(user_id)
    \/ goto_handler(user_id, <<" ", "2">>)
    \/ random_handler(user_id)
    \/ stats_handler(user_id)
    \/ review_wrong_handler(user_id)
    \/ topics_handler(user_id)
    \/ topic_handler(user_id, <<" ", "a">>)
    \/ nav_prev(user_id, <<"2">>)
    \/ nav_next(user_id, <<"2">>)
    \/ \E choice \in Letters, nav_mode \in {"sequential", "manual"} :
          answer_handler(user_id, choice, nav_mode, <<"1">>)
    \/ fallback_handler(user_id, <<"h", "i">>)

NextTwo == \E user_id \in Users : HandlersTwo(user_id)

SpecTwo == InitTwo /\ [][NextTwo]_vars

\* One user only picks levels and answers.  The other updates write neither
\* USER_PROGRESS nor USER_STATS, so every level pick and every answer of Spec
\* is taken here from the same session and statistics.
NextAnswers ==
    \/ \E difficulty \in Levels : level_handler("u1", difficulty)
    \/ \E choice \in Letters, nav_mode \in NavModes, qnum \in ButtonQnums :
          answer_handler("u1", choice, nav_mode, qnum)

SpecAnswers == Init /\ [][NextAnswers]_vars

\* The same updates on every catalog, the one with a repeated identifier
\* included.
InitCatalogs ==
    /\ \E qs \in Catalogs \cup {CatalogC} : InitBot(qs)
    /\ _pool = None
    /\ calls = <<>>
    /\ ret = NoRet
    /\ tasks = <<>>

SpecCatalogs == InitCatalogs /\ [][NextAnswers]_vars

\* One user picks levels, answers and asks for the questions answered wrong.
NextReview ==
    \/ NextAnswers
    \/ review_wrong_handler("u1")

SpecReview == Init /\ [][NextReview]_vars

-----------------------------------------------------------------------------
(* The handlers as the dispatcher runs them.  dp.start_polling(bot) hands   *)
(* every update to a task of its own, and a task runs until it awaits; the  *)
(* other tasks run while it is suspended.  level_handler and answer_handler *)
(* are taken here in the blocks their awaits cut them into.  The history   *)
(* run counts here: given has one entry for every answer handler that ended *)
(* after counting an answer, asked one for every such handler that was in   *)
(* sequential mode and found a session, since the session was last reset.   *)

\* updates handled at the same time
MaxTasks == 2

NoTask == [handler |-> "", user |-> "", pc |-> "idle", difficulty |-> "",
           choice |-> "", nav_mode |-> "", qnum |-> NoQnum]

\* the answer handler of the task ends: it counted an answer, and in
\* sequential mode it found a session whose cursor it had to advance
Ended(t) ==
    LET user_id == tasks[t].user IN
    run' = [run EXCEPT
              ![user_id].given = Append(@, tasks[t].choice = CorrectLetter(tasks[t].qnum)),
              ![user_id].asked = IF tasks[t].nav_mode = "sequential"
                                    /\ user_id \in DOMAIN USER_PROGRESS
                                 THEN Append(@, tasks[t].qnum) ELSE @]

\* the session of the user is set to the start of a level
Restarted(user_id) == run' = [run EXCEPT ![user_id].asked = <<>>]

\* the dispatcher starts a task for a level| button
dispatch_level(t, user_id, difficulty) ==
    /\ tasks[t] = NoTask
    /\ tasks' = [tasks EXCEPT ![t] =
                    [NoTask EXCEPT !.handler = "level", !.user = user_id, !.pc = "start",
                                   !.difficulty = difficulty]]
    /\ UNCHANGED <<catalogVars, dbVars, USER_PROGRESS, USER_STATS, SEEN_USERS, out, last, run>>

\* the dispatcher starts a task for an answer| button
dispatch_answer(t, user_id, choice, nav_mode, qnum) ==
    /\ tasks[t] = NoTask
    /\ tasks' = [tasks EXCEPT ![t] =
                    [NoTask EXCEPT !.handler = "answer", !.user = user_id, !.pc = "start",
                                   !.choice = choice, !.nav_mode = nav_mode, !.qnum = qnum]]
    /\ UNCHANGED <<catalogVars, dbVars, USER_PROGRESS, USER_STATS, SEEN_USERS, out, last, run>>

\* level_handler up to "await callback.message.answer(...)": the session is set
level_handler_select(t) ==
    LET user_id == tasks[t].user IN
    /\ tasks[t].handler = "level" /\ tasks[t].pc = "start"
    /\ USER_PROGRESS' = [k \in DOMAIN USER_PROGRESS \cup {user_id} |->
                            IF k = user_id
                            THEN [difficulty |-> tasks[t].difficulty, index |-> 0]
                            ELSE USER_PROGRESS[k]]
    /\ tasks' = [tasks EXCEPT ![t].pc = "selected"]
    /\ Restarted(user_id)
    /\ UNCHANGED <<catalogVars, dbVars, USER_STATS, SEEN_USERS, out, last>>

\* level_handler from "await send_sequential(...)": send_sequential reads the
\* session again and runs to its send; nothing after it touches the globals
level_handler_continue(t) ==
    LET user_id == tasks[t].user
        r       == send_sequential(USER_PROGRESS, user_id, tasks[t].difficulty)
    IN /\ tasks[t].handler = "level" /\ tasks[t].pc = "selected"
       /\ USER_PROGRESS' = r.progress
       /\ out' = Sent("level", user_id, "selected", r.shown, r.notice)
       /\ tasks' = [tasks EXCEPT ![t] = NoTask]
       /\ IF r.progress # USER_PROGRESS THEN Restarted(user_id) ELSE UNCHANGED run
       /\ UNCHANGED <<catalogVars, dbVars, USER_STATS, SEEN_USERS, last>>

\* answer_handler up to "await callback.message.answer(text)": the question is
\* looked up, the answer is counted and the feedback is formatted
answer_handler_evaluate(t) ==
    LET user_id == tasks[t].user
        qnum    == tasks[t].qnum
        choice  == tasks[t].choice
    IN /\ tasks[t].handler = "answer" /\ tasks[t].pc = "start"
       /\ IF qnum \notin DictKeys(QUESTION_INDEX)
          THEN /\ out' = Raised("answer", user_id, "none", "KeyError")
               /\ tasks' = [tasks EXCEPT ![t] = NoTask]
               /\ UNCHANGED <<USER_STATS, last, run>>
          ELSE LET q          == DictGet(QUESTION_INDEX, qnum)
                   correct    == Or(Get(q, "answer", None), Get(q, "correct", None))
                   is_correct == (choice = correct)
               IN /\ Answered < MaxAnswers
                  /\ USER_STATS' = update_stats(USER_STATS, user_id, q, qnum, is_correct)
                  /\ Record(user_id, qnum, choice)
                  /\ IF ~is_correct /\ ~HasOption(q, correct)
                     THEN /\ out' = Raised("answer", user_id, "none", "KeyError")
                          /\ tasks' = [tasks EXCEPT ![t] = NoTask]
                          /\ Ended(t)
                     ELSE /\ tasks' = [tasks EXCEPT ![t].pc = "answered"]
                          /\ UNCHANGED <<out, run>>
       /\ UNCHANGED <<catalogVars, dbVars, USER_PROGRESS, SEEN_USERS>>

\* answer_handler after the feedback was sent: in sequential mode the cursor
\* of the session found now is advanced and send_sequential runs to its send
answer_handler_continue(t) ==
    LET user_id  == tasks[t].user
        feedback == IF tasks[t].choice = CorrectLetter(tasks[t].qnum)
                    THEN "correct" ELSE "incorrect"
    IN /\ tasks[t].handler = "answer" /\ tasks[t].pc = "answered"
       /\ IF tasks[t].nav_mode = "sequential" /\ user_id \in DOMAIN USER_PROGRESS
          THEN LET p1 == Advance(USER_PROGRESS, user_id)
                   r  == send_sequential(p1, user_id, p1[user_id].difficulty)
               IN /\ USER_PROGRESS[user_id].index < MaxIndex
                  /\ USER_PROGRESS' = r.progress
                  /\ out' = Sent("answer", user_id, feedback, r.shown, r.notice)
          ELSE /\ out' = Sent("answer", user_id, feedback, NoShow, "none")
               /\ UNCHANGED USER_PROGRESS
       /\ tasks' = [tasks EXCEPT ![t] = NoTask]
       /\ Ended(t)
       /\ UNCHANGED <<catalogVars, dbVars, USER_STATS, SEEN_USERS, last>>

InitAsync ==
    /\ \E qs \in Catalogs : InitBot(qs)
    /\ _pool = None
    /\ calls = <<>>
    /\ ret = NoRet
    /\ tasks = [t \in 1..MaxTasks |-> NoTask]

\* One user presses level buttons and the answer buttons of question 1, in
\* sequential and in manual mode, without waiting for the replies.
NextAsync ==
    \/ \E t \in DOMAIN tasks, difficulty \in {"easy", "hard"} :
          dispatch_level(t, "u1", difficulty)
    \/ \E t \in DOMAIN tasks, choice \in Letters, nav_mode \in {"sequential", "manual"} :
          dispatch_answer(t, "u1", choice, nav_mode, <<"1">>)
    \/ \E t \in DOMAIN tasks : level_handler_select(t)
    \/ \E t \in DOMAIN tasks : level_handler_continue(t)
    \/ \E t \in DOMAIN tasks : answer_handler_evaluate(t)
    \/ \E t \in DOMAIN tasks : answer_handler_continue(t)

SpecAsync == InitAsync /\ [][NextAsync]_vars

-----------------------------------------------------------------------------
(* Properties.                                                             *)

Stats(user) == IF user \in DOMAIN USER_STATS THEN USER_STATS[user] ELSE EmptyStats

\* C1: for every user, after any sequence of answers, total is the sum of the
\* per-difficulty totals and correct is the sum of the per-difficulty corrects.
C1_TotalsAreBucketSums ==
    \A u \in DOMAIN USER_STATS :
        /\ USER_STATS[u].total = SumOver(USER_STATS[u].by_diff, "total")
        /\ USER_STATS[u].correct = SumOver(USER_STATS[u].by_diff, "correct")

\* C1 witness: a user with answers in two difficulty buckets, some of them correct
C1_Witness ==
    /\ "u1" \in DOMAIN USER_STATS
    /\ Cardinality(DOMAIN USER_STATS["u1"].by_diff) = 2
    /\ USER_STATS["u1"].total = 3
    /\ USER_STATS["u1"].correct = 1

\* the positions whose most recent answer by the user was incorrect
LastWrong(user) == {p \in DOMAIN last[user] : ~last[user][p].right}

\* C2: a user's wrong-set is exactly the set of positions whose most recent
\* answer by that user was incorrect.
C2_WrongSetIsLastWrong ==
    \A u \in Users : Stats(u).wrong_qnums = LastWrong(u)

\* C2 witness: the user answered one position three times, once correctly and
\* incorrectly the last time, and the position is in the wrong-set
C2_Witness ==
    \E p \in DOMAIN last["u1"] :
        /\ DOMAIN last["u1"] = {p} /\ ~last["u1"][p].right
        /\ Stats("u1").total = 3 /\ Stats("u1").correct = 1
        /\ p \in Stats("u1").wrong_qnums

HasSession(user) == user \in DOMAIN USER_PROGRESS

\* the step is one of handler op for the user (every handler says so in out)
By(op, user) == out'.op = op /\ out'.user = user

Positions == {Str(i) : i \in 1..Len(QUESTIONS)}

\* the position on a button that no question of the catalog has
Stale == Str(Len(QUESTIONS) + 1)

\* C3: the cursor increases by exactly 1 per question answered in sequential
\* mode, whether the answer was correct or not, and decreases only when the
\* user selects a difficulty, which sets it to 0.
C3_CursorAdvancesByOne ==
    [][\A u \in Users :
          HasSession(u) =>
            /\ \A choice \in Letters, qnum \in Positions :
                  (By("answer", u) /\ answer_handler(u, choice, "sequential", qnum))
                      => USER_PROGRESS'[u].index = USER_PROGRESS[u].index + 1
            /\ USER_PROGRESS'[u].index < USER_PROGRESS[u].index
                      => out'.op = "level" /\ USER_PROGRESS'[u].index = 0]_vars

\* the positions of the questions of a difficulty, in catalog order
PositionsOf(difficulty) ==
    SelectSeq([i \in 1..Len(QUESTIONS) |-> i],
              LAMBDA i : Get(QUESTIONS[i], "difficulty", None) = difficulty)

\* C4: a fresh user picks a difficulty with n questions and answers each
\* presented question once; for every k < n, after k answers the cursor is k,
\* the question presented is the (k+1)-th of that difficulty in catalog order,
\* total is k, correct is the number of correct answers and the wrong-set holds
\* the positions answered incorrectly.
C4_SequentialPass ==
    \A u \in Users :
        run[u].on =>
            LET k   == Len(run[u].given)
                pos == PositionsOf(run[u].difficulty)
            IN k < Len(pos) =>
                 /\ HasSession(u)
                 /\ USER_PROGRESS[u].index = k
                 /\ run[u].shown = Str(pos[k + 1])
                 /\ Stats(u).total = k
                 /\ Stats(u).correct = Cardinality({i \in 1..k : run[u].given[i]})
                 /\ Stats(u).wrong_qnums =
                        {run[u].asked[i] : i \in {j \in 1..k : ~run[u].given[j]}}

\* the token of "/goto" + rest: what follows the first space, trimmed
GotoToken(rest) ==
    IF \E i \in 1..Len(rest) : rest[i] = " "
    THEN Strip(SubSeq(rest, WordLen(rest) + 1, Len(rest)))
    ELSE <<>>

\* the token is missing, is not a number, or is the number of no position
BadToken(rest) ==
    LET tok == GotoToken(rest) IN
    \/ tok = <<>>
    \/ \E i \in 1..Len(tok) : tok[i] \notin DigitSet
    \/ ToInt(tok) \notin 1..Len(QUESTIONS)

\* C5: a goto whose token is missing, non-numeric or the number of no catalog
\* position presents no question and leaves every Session and Statistics
\* entry unchanged.
C5_BadGotoChangesNothing ==
    [][out'.op = "goto" =>
          \A rest \in GotoRests :
              (BadToken(rest) /\ goto_handler(out'.user, rest))
                  => /\ out'.shown = NoShow
                     /\ out'.reply \in {"format", "not_found"}
                     /\ UNCHANGED <<USER_PROGRESS, USER_STATS>>]_vars

\* C5 witness: a user with a session and statistics was told the position
\* does not exist
C5_Witness ==
    /\ out.op = "goto" /\ out.reply = "not_found"
    /\ HasSession(out.user) /\ Stats(out.user).total > 0

\* the question message for the position of number n, in manual mode
Manual(n) == [qnum |-> Str(n), qid |-> QUESTIONS[n].id, mode |-> "manual"]

\* C6: the question indexed at position p is the p-th question of the
\* catalog, and prev (next) from a question displayed at p presents the
\* question at p-1 (p+1) whenever that position exists, whatever the
\* difficulty of the user's session.
C6_PrevNextWalkTheCatalog ==
    /\ [](\A p \in 1..Len(QUESTIONS) :
             /\ Str(p) \in DictKeys(QUESTION_INDEX)
             /\ DictGet(QUESTION_INDEX, Str(p)) = QUESTIONS[p])
    /\ [][\A u \in Users, p \in 1..Len(QUESTIONS) :
             /\ (By("nav_prev", u) /\ nav_prev(u, Str(p)) /\ p - 1 >= 1)
                    => out'.shown = Manual(p - 1)
             /\ (By("nav_next", u) /\ nav_next(u, Str(p)) /\ p + 1 <= Len(QUESTIONS))
                    => out'.shown = Manual(p + 1)]_vars

\* C6 witness: next presented position 3, an easy question, to a user whose
\* session is on hard
C6_Witness ==
    /\ out.op = "nav_next" /\ out.shown.qnum = <<"3">>
    /\ HasSession(out.user) /\ USER_PROGRESS[out.user].difficulty = "hard"
    /\ Get(QUESTIONS[3], "difficulty", None) = "easy"

\* C7: next from the last position and prev from the first give a boundary
\* notice, present no question, raise nothing and change no Session or
\* Statistics entry.
C7_BoundaryNotice ==
    [][\A u \in Users :
          /\ (By("nav_next", u) /\ nav_next(u, Str(Len(QUESTIONS))))
                => /\ out'.reply = "last" /\ out'.shown = NoShow /\ out'.raised = "none"
                   /\ UNCHANGED <<USER_PROGRESS, USER_STATS>>
          /\ (By("nav_prev", u) /\ nav_prev(u, Str(1)))
                => /\ out'.reply = "first" /\ out'.shown = NoShow /\ out'.raised = "none"
                   /\ UNCHANGED <<USER_PROGRESS, USER_STATS>>]_vars

\* C7 witness: a user with a session and statistics was told this is the last question
C7_Witness ==
    /\ out.op = "nav_next" /\ out.reply = "last"
    /\ HasSession(out.user) /\ Stats(out.user).total > 0

\* C8: an answer for a position that is not in the catalog is reported as a
\* handled condition: the handler does not raise, and no Statistics or
\* Session entry changes.
C8_UnknownPositionHandled ==
    [][\A u \in Users, choice \in Letters, nav_mode \in NavModes :
          (By("answer", u) /\ answer_handler(u, choice, nav_mode, Stale))
              => /\ out'.raised = "none"
                 /\ UNCHANGED <<USER_PROGRESS, USER_STATS>>]_vars

\* the topics of the catalog
Topics == {Get(QUESTIONS[i], "topic", <<>>) : i \in 1..Len(QUESTIONS)} \ {<<>>}

\* the topic of the question a message presents
ShownTopic(o) == Get(QUESTIONS[ToInt(o.shown.qnum)], "topic", <<>>)

\* C9: a query whose lowercased form is the lowercased name of a known topic
\* resolves to that topic, even when it is a prefix of other topic names;
\* prefix matching is used only when there is no such topic; a query matching
\* neither gets a not-found notice and no question.
C9_ExactTopicWins ==
    [][out'.op = "topic" => \A rest \in TopicRests :
          (Strip(rest) # <<>> /\ topic_handler(out'.user, rest)) =>
              LET query  == Lower(Strip(rest))
                  exact  == {t \in Topics : Lower(t) = query}
                  prefix == {t \in Topics : StartsWith(Lower(t), query)}
              IN IF exact # {}
                 THEN out'.shown # NoShow /\ ShownTopic(out') \in exact
                 ELSE IF prefix # {}
                 THEN out'.shown # NoShow /\ ShownTopic(out') \in prefix
                 ELSE out'.shown = NoShow /\ out'.reply = "not_found"]_vars

\* C9 witness: the query "a" presented the question of topic "a", although it
\* is a prefix of the topic "Ab", which comes first in the topic index
C9_Witness ==
    /\ out.op = "topic" /\ out.shown # NoShow
    /\ ShownTopic(out) = <<"a">>
    /\ TOPIC_INDEX[1][1] = <<"A", "b">>

\* the last analytics call came back without a connection or with a failed statement
Degraded == ret.fault \in {"no_pool", "acquire", "statement"}

\* C10: every analytics logger call degrades instead of raising: no exception
\* escapes it, and when the pool is absent, the acquisition fails or the
\* statement fails it returns False (ensure_user, log_event, log_attempt) or
\* its zero value (the read queries).
C10_LoggerNeverRaises ==
    /\ ret.raised = "none"
    /\ Degraded => ret.value = Zero(ret.fn)

\* the three failures named by C10 do give the zero value whenever the call returns
C10_DegradedReturnsZero ==
    (Degraded /\ ret.raised = "none") => ret.value = Zero(ret.fn)

\* what the bot keeps for a user: the Session entry, the Statistics entry
\* (with its wrong-set) and the membership in the seen-set
Entry(user) ==
    [session |-> IF user \in DOMAIN USER_PROGRESS THEN <<USER_PROGRESS[user]>> ELSE <<>>,
     stats   |-> IF user \in DOMAIN USER_STATS THEN <<USER_STATS[user]>> ELSE <<>>,
     seen    |-> user \in SEEN_USERS]

\* C11: an action of a user leaves the Session entry, the Statistics entry,
\* the wrong-set and the seen-set membership of every other user unchanged.
C11_NoCrossUserEffect ==
    [][\A v \in Users : v # out'.user => Entry(v)' = Entry(v)]_vars

\* C11 witness: both users have a session and statistics, with different
\* cursors and different counters, and both are in the seen-set
C11_Witness ==
    /\ HasSession("u1") /\ HasSession("u2")
    /\ USER_PROGRESS["u1"].index = 2 /\ USER_PROGRESS["u2"].index = 0
    /\ Stats("u1").total = 2 /\ Stats("u2").total = 1
    /\ Stats("u1").wrong_qnums # Stats("u2").wrong_qnums
    /\ SEEN_USERS = Users

\* the task took a step of its handler (not the dispatch that started it)
Stepped(t) == tasks[t].pc # "idle" /\ tasks'[t] # tasks[t]

\* the next block of the task reads or writes the Session entry of its user
TouchesSession(task) ==
    \/ task.handler = "level"
    \/ task.handler = "answer" /\ task.pc = "answered" /\ task.nav_mode = "sequential"

\* C12: a handler is one atomic unit of work on its user's state.  While a
\* level pick is between its write and its last read of the Session entry,
\* no other handler of the same user reads or writes that entry; and nothing
\* another handler of the same user does falls between the statistics update
\* and the cursor advance of one sequential answer.
C12_HandlersAreAtomic ==
    [][\A t, t2 \in DOMAIN tasks :
          (t # t2 /\ tasks[t2].user = tasks[t].user /\ Stepped(t2)) =>
             /\ tasks[t].pc = "selected" => ~TouchesSession(tasks[t2])
             /\ (tasks[t].pc = "answered" /\ tasks[t].nav_mode = "sequential")
                    => Entry(tasks[t].user)' = Entry(tasks[t].user)]_vars

\* the counters of a bucket of a Statistics entry, zero when there is no such bucket
Bucket(stats, tag) ==
    IF tag \in DOMAIN stats.by_diff THEN stats.by_diff[tag] ELSE [total |-> 0, correct |-> 0]

\* the bucket an answer to the question at position n belongs to
TagOf(n) == IF "difficulty" \in DOMAIN QUESTIONS[n] THEN QUESTIONS[n].difficulty ELSE "unknown"

\* C13: an answer for an existing position, in any navigation mode, adds 1 to
\* the user's total, adds 1 to correct exactly when the chosen letter is the
\* question's correct letter, and adds the same to the one bucket keyed by
\* the question's difficulty tag ("unknown" without a tag); no other bucket
\* changes.
C13_AnswerIncrements ==
    [][out'.op = "answer" =>
          \A choice \in Letters, nav_mode \in NavModes, n \in 1..Len(QUESTIONS) :
              answer_handler(out'.user, choice, nav_mode, Str(n)) =>
                  LET old == Stats(out'.user)
                      new == USER_STATS'[out'.user]
                      inc == IF choice = CorrectLetter(Str(n)) THEN 1 ELSE 0
                  IN /\ new.total = old.total + 1
                     /\ new.correct = old.correct + inc
                     /\ Bucket(new, TagOf(n)) =
                            [total   |-> Bucket(old, TagOf(n)).total + 1,
                             correct |-> Bucket(old, TagOf(n)).correct + inc]
                     /\ DOMAIN new.by_diff = DOMAIN old.by_diff \cup {TagOf(n)}
                     /\ \A tag \in DOMAIN old.by_diff \ {TagOf(n)} :
                            new.by_diff[tag] = old.by_diff[tag]]_vars

\* C13 witness: two answers counted in the "unknown" bucket of the question
\* without a tag, one of them correct, next to an answer in the "easy" bucket
C13_Witness ==
    /\ out.op = "answer" /\ out.raised = "none"
    /\ Bucket(Stats(out.user), "unknown") = [total |-> 2, correct |-> 1]
    /\ Bucket(Stats(out.user), "easy").total = 1

\* C14: a difficulty selection replaces the user's Session entry by (selected
\* difficulty, cursor 0), whether or not the difficulty is the current one
\* and whatever the cursor was, and leaves the Statistics unchanged.
C14_LevelPickResets ==
    [][out'.op = "level" =>
          \A difficulty \in Levels :
              level_handler(out'.user, difficulty) =>
                  /\ out'.user \in DOMAIN USER_PROGRESS'
                  /\ USER_PROGRESS'[out'.user] = [difficulty |-> difficulty, index |-> 0]
                  /\ USER_STATS' = USER_STATS]_vars

\* C14 witness: a user who has answered three questions picked easy: the
\* session is (easy, 0) and the first easy question is presented
C14_Witness ==
    /\ out.op = "level" /\ out.shown.qnum = <<"1">>
    /\ HasSession(out.user)
    /\ USER_PROGRESS[out.user] = [difficulty |-> "easy", index |-> 0]
    /\ Stats(out.user).total = 3

\* the message presents the question of the catalog at its position
ShowsCatalogQuestion(o) ==
    /\ o.shown.qnum \in Positions
    /\ o.shown.qid = QUESTIONS[ToInt(o.shown.qnum)].id

\* the positions of the questions of a topic
PositionsWithTopic(topic) ==
    {Str(i) : i \in {j \in 1..Len(QUESTIONS) : Get(QUESTIONS[j], "topic", <<>>) = topic}}

\* the question presented by random, by a topic query or by review-wrong is
\* drawn from its source set: a catalog position, a position in the position
\* list of a topic (C9 says which topic a query resolves to), a position of
\* the user's wrong-set
DrawnFromSource(o) ==
    /\ ShowsCatalogQuestion(o)
    /\ o.op = "topic" =>
          \E t \in Topics : o.shown.qnum \in PositionsWithTopic(t)
    /\ o.op = "review_wrong" => o.shown.qnum \in Stats(o.user).wrong_qnums

SourceOps == {"random", "intro_random", "topic", "review_wrong"}

C16_OnlyAnswersWriteStats ==
    [][/\ USER_STATS' # USER_STATS => out'.op = "answer"
       /\ DOMAIN USER_STATS \subseteq DOMAIN USER_STATS'
       /\ (out'.op = "stats" /\ out'.user \notin DOMAIN USER_STATS)
              => out'.reply = "no_stats" /\ out'.user \notin DOMAIN USER_STATS']_vars

\* C16 witness: a user with a session who never answered asked for the
\* statistics and got the empty view, while no entry exists for the user
C16_Witness ==
    /\ out.op = "stats" /\ out.reply = "no_stats"
    /\ HasSession(out.user) /\ out.user \in SEEN_USERS
    /\ out.user \notin DOMAIN USER_STATS

\* the handlers of manual and review navigation
ManualOps == {"goto", "random", "intro_random", "topic", "nav_prev", "nav_next", "review_wrong"}

\* the step leaves the Session entries alone and sends nothing of a
\* sequential continuation (no question in sequential mode, no level notice)
NoContinuation ==
    /\ USER_PROGRESS' = USER_PROGRESS
    /\ out'.shown.mode # "sequential"
    /\ out'.then = "none"

\* C17: goto, random, topic query, prev, next, review-wrong and every answer
\* submitted with a navigation mode other than sequential leave the Session
\* entry unchanged and trigger no sequential continuation.
C17_ManualIgnoresCursor ==
    [][/\ out'.op \in ManualOps => NoContinuation
       /\ (out'.op = "answer" /\ ~NoContinuation) =>
              \A choice \in Letters, nav_mode \in NavModes \ {"sequential"},
                 qnum \in ButtonQnums :
                  ~answer_handler(out'.user, choice, nav_mode, qnum)]_vars

\* C17 witness: after an answer that presented nothing, the cursor of the
\* user's session is 1 and the user has answered three questions, so at
\* least two answers did not move the cursor
C17_Witness ==
    /\ out.op = "answer" /\ out.raised = "none" /\ out.shown = NoShow /\ out.then = "none"
    /\ HasSession(out.user) /\ USER_PROGRESS[out.user].index = 1
    /\ Stats(out.user).total = 3

\* the number of questions of a difficulty
LevelSize(difficulty) == Len(get_questions_by_difficulty(difficulty))

\* what the sequential continuation answers for the user's session as it is
Continuation(u) == send_sequential(USER_PROGRESS, u, USER_PROGRESS[u].difficulty)

\* C18: for a difficulty with n >= 1 questions, once the cursor is >= n the
\* sequential continuation reports "level complete", presents no question,
\* raises nothing and changes no Session entry, however often it is invoked;
\* for a difficulty without questions it reports "no questions" and presents
\* nothing; and the n-th sequential answer after a level pick is followed by
\* the "level complete" notice.
C18_LevelComplete ==
    [][/\ \A u \in Users :
            (HasSession(u) /\ LevelSize(USER_PROGRESS[u].difficulty) >= 1
                /\ USER_PROGRESS[u].index >= LevelSize(USER_PROGRESS[u].difficulty))
              => /\ Continuation(u).notice = "level_complete"
                 /\ Continuation(u).shown = NoShow
                 /\ Continuation(u).progress = USER_PROGRESS
                 /\ send_sequential(Continuation(u).progress, u,
                                    USER_PROGRESS[u].difficulty) = Continuation(u)
       /\ \A u \in Users, difficulty \in Levels :
            LevelSize(difficulty) = 0
              => /\ send_sequential(USER_PROGRESS, u, difficulty).notice = "no_questions"
                 /\ send_sequential(USER_PROGRESS, u, difficulty).shown = NoShow
       /\ out'.then = "level_complete"
              => out'.shown = NoShow /\ out'.raised = "none"
       /\ \A u \in Users :
            (run[u].on /\ Len(run[u].given) = LevelSize(run[u].difficulty) - 1)
              => \A choice \in Letters, qnum \in DictKeys(QUESTION_INDEX) :
                    answer_handler(u, choice, "sequential", qnum)
                        => out'.then = "level_complete"]_vars

\* C18 witness: the second sequential answer after picking a level of two
\* questions moved the cursor to 2 and was followed by "level complete"
C18_Witness ==
    /\ out.op = "answer" /\ out.then = "level_complete" /\ out.shown = NoShow
    /\ HasSession(out.user)
    /\ LevelSize(USER_PROGRESS[out.user].difficulty) = 2
    /\ USER_PROGRESS[out.user].index = 2
    /\ Stats(out.user).total = 2

\* no two catalog positions hold the same identifier
UniqueIds ==
    \A i, j \in 1..Len(QUESTIONS) : QUESTIONS[i].id = QUESTIONS[j].id => i = j

\* the question at the cursor of the user's session
SessionQuestion(u) ==
    get_questions_by_difficulty(USER_PROGRESS[u].difficulty)[USER_PROGRESS[u].index + 1]

\* the question just presented in sequential mode is the one at the cursor;
\* the position it carries is the first one holding its identifier and, with
\* unique identifiers, the position of that very question, whose difficulty is
\* the one of the session
PresentedAtItsPosition ==
    out.shown.mode = "sequential" =>
        LET qnum == out.shown.qnum
            q    == SessionQuestion(out.user)
        IN /\ out.shown.qid = q.id
           /\ qnum \in DictKeys(QUESTION_INDEX)
           /\ QUESTIONS[ToInt(qnum)].id = q.id
           /\ \A i \in 1..(ToInt(qnum) - 1) : QUESTIONS[i].id # q.id
           /\ UniqueIds =>
                /\ DictGet(QUESTION_INDEX, qnum) = q
                /\ Get(DictGet(QUESTION_INDEX, qnum), "difficulty", None)
                       = USER_PROGRESS[out.user].difficulty

\* with unique identifiers, the answer given on the buttons of the question
\* just presented is evaluated against that question
EvaluatedAgainstShown ==
    (out.shown.mode = "sequential" /\ UniqueIds) =>
        LET u    == out.user
            qnum == out.shown.qnum
            q    == SessionQuestion(u)
        IN \A choice \in Letters :
              answer_handler(u, choice, "sequential", qnum) =>
                 LET is_correct == (choice = Or(Get(q, "answer", None),
                                                Get(q, "correct", None)))
                 IN /\ USER_STATS' = update_stats(USER_STATS, u, q, qnum, is_correct)
                    /\ last'[u][qnum].right = is_correct

\* C19: when question identifiers are unique, the position carried by a
\* sequentially presented question q is the position of q itself, so an answer
\* is evaluated against the question shown, and the difficulty of q is the
\* difficulty of the user's session when q is presented; the position chosen
\* is always the first catalog position whose identifier matches.
C19_PositionOfShownQuestion ==
    [][PresentedAtItsPosition' /\ EvaluatedAgainstShown]_vars

\* C19 witness: in the catalog of unique identifiers, the second easy
\* question was presented after a correct answer, carrying position 3
C19_Witness ==
    /\ UniqueIds
    /\ out.op = "answer" /\ out.reply = "correct"
    /\ out.shown = [qnum |-> <<"3">>, qid |-> "q3", mode |-> "sequential"]
    /\ USER_PROGRESS[out.user] = [difficulty |-> "easy", index |-> 1]
    /\ Stats(out.user).total = 1

\* the step sends the intro message to the user
IntroSentTo(u) == out'.reply = "intro" /\ out'.user = u

\* C20: a user enters the seen-users set exactly in the steps of start or
\* fallback that send them the intro, so the set holds the users the intro has
\* been sent to; a non-command fallback message of a user outside the set
\* sends the intro and adds them, one of a user in the set sends "command not
\* understood" and no intro; no user ever leaves the set.
C20_SeenIffIntroSent ==
    [][/\ SEEN_USERS \subseteq SEEN_USERS'
       /\ \A u \in Users :
            /\ u \in SEEN_USERS' \ SEEN_USERS
                  => IntroSentTo(u) /\ out'.op \in {"start", "fallback"}
            /\ IntroSentTo(u)
                  => u \in SEEN_USERS' /\ out'.op \in {"start", "fallback"}
       /\ out'.op = "fallback" =>
            \A text \in FallbackTexts :
               (~IsCommand(text) /\ fallback_handler(out'.user, text)) =>
                  IF out'.user \in SEEN_USERS
                  THEN out'.reply = "not_understood" /\ SEEN_USERS' = SEEN_USERS
                  ELSE out'.reply = "intro"
                       /\ SEEN_USERS' = SEEN_USERS \cup {out'.user}]_vars

\* C20 witness: a user in the seen-users set, who has a session and answered
\* twice, wrote a message that is no command and got "command not understood"
C20_Witness ==
    /\ out.op = "fallback" /\ out.reply = "not_understood"
    /\ out.user \in SEEN_USERS
    /\ HasSession(out.user)
    /\ Stats(out.user).total = 2

\* the correct letter of the question is absent or no key of its options
Unanswerable(q) ==
    ~HasOption(q, Or(Get(q, "answer", None), Get(q, "correct", None)))

\* the catalog was loaded with a question that cannot be answered
LoadedUnanswerable ==
    \E i \in 1..Len(QUESTION_INDEX) : Unanswerable(QUESTION_INDEX[i][2])

\* C21: a question whose correct letter is absent or no key of its options is
\* rejected at load or treated as unanswerable: an answer submitted for it
\* raises nothing and does not leave the statistics changed without a
\* feedback message and, in sequential mode with a session, without the
\* cursor advancing.
C21_UnanswerableHandled ==
    [][\A u \in Users, choice \in Letters, nav_mode \in NavModes,
          qnum \in DictKeys(QUESTION_INDEX) :
           (Unanswerable(DictGet(QUESTION_INDEX, qnum))
               /\ answer_handler(u, choice, nav_mode, qnum))
             => /\ out'.raised = "none"
                /\ USER_STATS' # USER_STATS =>
                     /\ out'.reply \in {"correct", "incorrect"}
                     /\ (nav_mode = "sequential" /\ HasSession(u))
                           => USER_PROGRESS'[u].index = USER_PROGRESS[u].index + 1]_vars

\* C21 witness: the catalog holds such a question, the user answered it in
\* sequential mode, the answer is counted, the handler raised and the cursor
\* of the session is still 0
C21_Witness ==
    /\ LoadedUnanswerable
    /\ out.op = "answer" /\ out.raised = "KeyError"
    /\ HasSession(out.user) /\ USER_PROGRESS[out.user].index = 0
    /\ Stats(out.user).total = 1
    /\ Stats(out.user).wrong_qnums = {<<"1">>}

\* no handler of the user is running
Idle(u) == \A t \in DOMAIN tasks : tasks[t].user # u

\* C22: no update is lost when handlers of one user interleave at their
\* awaits: once the answer handlers for valid positions have all ended, the
\* total of the user has grown by their number and the cursor of the session
\* by the number of those in sequential mode that found a session, counted
\* since the last level pick.
C22_NoLostUpdate ==
    \A u \in Users :
        Idle(u) =>
            /\ Stats(u).total = Len(run[u].given)
            /\ HasSession(u) => USER_PROGRESS[u].index = Len(run[u].asked)

\* C22 witness: a double tap on one sequential answer button, both handlers
\* counted the answer before either advanced the cursor; total and cursor
\* are 2
C22_Witness ==
    /\ Idle("u1")
    /\ run["u1"].asked = << <<"1">>, <<"1">> >>
    /\ Stats("u1").total = 2
    /\ HasSession("u1") /\ USER_PROGRESS["u1"].index = 2
    /\ out.then = "level_complete"

\* the wrong-set of a user
Wrong(u) == Stats(u).wrong_qnums

\* C23: review converges.  A review-wrong request of a user with a wrong-set
\* of size w >= 1 presents a question of the set and leaves the set alone; the
\* correct answer to the presented question leaves a set of size w - 1, so w
\* rounds of request and correct answer empty the set; and a review-wrong
\* request of a user with an empty wrong-set reports that there are no wrong
\* questions and presents nothing.
C23_ReviewConverges ==
    [][/\ out'.op = "review_wrong" =>
            /\ USER_STATS' = USER_STATS
            /\ IF Wrong(out'.user) = {}
               THEN out'.reply = "no_wrong" /\ out'.shown = NoShow
               ELSE out'.shown.qnum \in Wrong(out'.user) /\ out'.shown.mode = "review"
       /\ (out.op = "review_wrong" /\ out.shown # NoShow /\ out'.op = "answer") =>
            \A choice \in Letters :
               (choice = CorrectLetter(out.shown.qnum)
                   /\ answer_handler(out.user, choice, "review", out.shown.qnum))
                 => /\ out'.raised = "none" /\ out'.reply = "correct"
                    /\ Wrong(out.user)' = Wrong(out.user) \ {out.shown.qnum}
                    /\ Cardinality(Wrong(out.user)') = Cardinality(Wrong(out.user)) - 1]_vars

\* C23 witness: the user answered one question wrong, then answered it
\* correctly, the wrong-set is empty and the review-wrong request reports that
\* there are no wrong questions
C23_Witness ==
    /\ out.op = "review_wrong" /\ out.reply = "no_wrong" /\ out.shown = NoShow
    /\ Stats(out.user).total = 2 /\ Stats(out.user).correct = 1
    /\ Wrong(out.user) = {}
    /\ \A p \in DOMAIN last[out.user] : last[out.user][p].right

\* the call holds a connection and its nested ensure_user waits for another
WaitsHolding(c) ==
    /\ Len(calls[c]) = 2
    /\ calls[c][1].pc = "called"
    /\ calls[c][2].pc = "acquire"

\* every connection of the pool is held by a call that waits for another one
PoolExhaustedByWaiters ==
    /\ _pool # None
    /\ Held = PoolMaxSize
    /\ \A c \in DOMAIN calls : HeldBy(calls[c]) > 0 => WaitsHolding(c)

\* C24: log_event and log_attempt hold one connection while the nested
\* ensure_user acquires a second one from the pool of at most 5, and no set of
\* concurrent calls ends up with every connection held by a call that waits
\* for another connection, so every call returns True or False.
C24_NoPoolDeadlock == ~PoolExhaustedByWaiters

\* C24 witness: a log call holds one connection, its nested ensure_user holds
\* a second one, and another log call has returned True
C24_Witness ==
    /\ \E c \in DOMAIN calls :
          /\ Len(calls[c]) = 2
          /\ calls[c][1].pc = "called"
          /\ calls[c][2].pc = "body"
    /\ Held >= 2
    /\ ret.fn \in Loggers /\ ret.value = "True" /\ ret.raised = "none"

\* the counters of every entry are in range and the wrong-set holds catalog
\* positions, no more of them than answers counted incorrect
StatsInRange ==
    \A u \in DOMAIN USER_STATS :
        LET s == USER_STATS[u] IN
        /\ 0 <= s.correct /\ s.correct <= s.total
        /\ \A d \in DOMAIN s.by_diff :
              0 <= s.by_diff[d].correct /\ s.by_diff[d].correct <= s.by_diff[d].total
        /\ s.wrong_qnums \subseteq DictKeys(QUESTION_INDEX)
        /\ Cardinality(s.wrong_qnums) <= s.total - s.correct

\* no counter of an entry is lower after the step, and no bucket is dropped
StatsGrow ==
    \A u \in DOMAIN USER_STATS :
        /\ u \in DOMAIN USER_STATS'
        /\ USER_STATS'[u].total >= USER_STATS[u].total
        /\ USER_STATS'[u].correct >= USER_STATS[u].correct
        /\ \A d \in DOMAIN USER_STATS[u].by_diff :
              /\ d \in DOMAIN USER_STATS'[u].by_diff
              /\ USER_STATS'[u].by_diff[d].total >= USER_STATS[u].by_diff[d].total
              /\ USER_STATS'[u].by_diff[d].correct >= USER_STATS[u].by_diff[d].correct

\* C25: in every reachable state and for every user 0 <= correct <= total,
\* every difficulty bucket has 0 <= correct <= total, every member of the
\* wrong-set is an existing catalog position and the wrong-set has at most
\* total - correct members; and no step decreases any of the counters.  The
\* statistics are empty at start, so it is every step that changes them that
\* has to leave them in range and grown.
C25_StatsInvariants ==
    [][USER_STATS' # USER_STATS => StatsInRange' /\ StatsGrow]_vars

\* C25 witness: after three answers, two of them wrong and on two positions,
\* one of the two later answered correctly: the wrong-set has one member while
\* total - correct is 2, and two buckets are counted
C25_Witness ==
    \E u \in DOMAIN USER_STATS :
        /\ USER_STATS[u].total = 3 /\ USER_STATS[u].correct = 1
        /\ Cardinality(USER_STATS[u].wrong_qnums) = 1
        /\ Cardinality(DOMAIN USER_STATS[u].by_diff) = 2
        /\ out.raised = "none"

====
